---- MODULE Spec2Model ----
(***************************************************************************)
(* The bus dashboard of main.py: a Streamlit script that is run from top   *)
(* to bottom on every page load and after every widget interaction.  One   *)
(* script run reads the route CSV files, resolves each of them through the *)
(* cached get_osrm_route, places the markers of every resolved route on a  *)
(* folium map, builds the sidebar (where a click on the refresh button     *)
(* advances every bus and reruns the script) and displays the map.         *)
(*                                                                         *)
(* State that outlives a script run: the CSV files, the st.cache_data      *)
(* store of get_osrm_route, st.session_state.  Everything else is local to *)
(* a run and is reset when the next run starts.                            *)
(***************************************************************************)
EXTENDS Integers, Sequences, FiniteSets, TLC

\* Length of the longest path the routing service returns.
MaxLen == 5
\* Number of times a route CSV file is rewritten during the session.
MaxEdits == 1
\* Length of the path of a long route (see SpecLong).
LongLen == 15
\* random.randint(5, 15): the bounds of the trip length draw.
TripMin == 5
TripMax == 15

TripLengths == TripMin..TripMax

\* The CSV files under routes/, in the order rglob lists them; the file's
\* stem is the route's name and its session_state key.
RouteNames == <<"r1", "r2">>

Routes == {RouteNames[i] : i \in 1..Len(RouteNames)}

(***************************************************************************)
(* A route frame is the table read from a CSV file: a sequence of rows     *)
(* <<Latitude, Longitude, Name>>.  FrameA and FrameB hold the same         *)
(* coordinates under different stop names; FrameOne holds a single stop.   *)
(***************************************************************************)
FrameA == << <<1, 2, "a">>, <<3, 4, "b">> >>
FrameB == << <<1, 2, "c">>, <<3, 4, "d">> >>
FrameC == << <<5, 6, "a">>, <<7, 8, "b">>, <<9, 10, "c">> >>
FrameOne == << <<1, 2, "a">> >>

Frames == {FrameA, FrameB, FrameC, FrameOne}

\* The coordinate part of the request URL: "lon,lat" of every row, in order.
Coordinates(stops) == [i \in 1..Len(stops) |-> <<stops[i][2], stops[i][1]>>]

(***************************************************************************)
(* The routing service.  A geometry is an encoded polyline: a sequence of  *)
(* deltas, or a string that does not decode.  polyline.decode sums the     *)
(* deltas; an empty string decodes to the empty list.                      *)
(***************************************************************************)
Geometry(n) == [valid |-> TRUE, deltas |-> [i \in 1..n |-> i]]
BadGeometry == [valid |-> FALSE, deltas |-> << >>]

PathLens == {0, 1, MaxLen}
Geometries == {Geometry(n) : n \in PathLens} \cup {BadGeometry}

RECURSIVE Sum(_, _)
Sum(deltas, n) == IF n = 0 THEN 0 ELSE Sum(deltas, n - 1) + deltas[n]

decode(g) == [i \in 1..Len(g.deltas) |-> Sum(g.deltas, i)]

(***************************************************************************)
(* What requests.get may bring back: a transport failure (raises), or a    *)
(* response with an HTTP status and a JSON body {code, routes, message?}.  *)
(***************************************************************************)
Response(raises, status, has_code, code, routes, has_message, message) ==
    [raises |-> raises, status |-> status, has_code |-> has_code, code |-> code,
     routes |-> routes, has_message |-> has_message, message |-> message]

Timeout == Response(TRUE, 0, FALSE, "", << >>, FALSE, "")
BadRequest == Response(FALSE, 400, TRUE, "NoRoute", << >>, TRUE, "Impossible route")
NoRoute == Response(FALSE, 200, TRUE, "NoRoute", << >>, TRUE, "Impossible route")
NoRoutes == Response(FALSE, 200, TRUE, "Ok", << >>, FALSE, "")
NoCode == Response(FALSE, 200, FALSE, "", << >>, FALSE, "")
Found(g) == Response(FALSE, 200, TRUE, "Ok", <<g>>, FALSE, "")

Responses == {Timeout, BadRequest, NoRoute, NoRoutes, NoCode} \cup {Found(g) : g \in Geometries}

\* A service says, for the stops of every frame, what it may answer.
AnyService == [f \in Frames |-> Responses]

\* The service that finds a long route for the stops of FrameA and no route
\* for any other.
LongService ==
    [f \in Frames |-> IF f = FrameA THEN {Found(Geometry(LongLen))} ELSE {NoRoute}]

\* The service that finds, for any stops, a route of MaxLen or of LongLen
\* points.
PairService ==
    [f \in Frames |-> {Found(Geometry(MaxLen)), Found(Geometry(LongLen))}]

\* An st.error element.
Error(kind, arg) == [kind |-> kind, arg |-> arg]

None == [is_none |-> TRUE, route |-> << >>]
Some(route) == [is_none |-> FALSE, route |-> route]

\* What one execution of get_osrm_route's body returns and displays.
Outcome(value, errors) == [value |-> value, errors |-> errors]

\* response.raise_for_status()
raise_for_status(resp) == resp.status >= 400

\* The success test of the response body.
IsOk(resp) == resp.code = "Ok" /\ resp.routes # << >>

get_osrm_route(stops, resp) ==
    IF resp.raises \/ raise_for_status(resp)
    THEN Outcome(None, <<Error("Error connecting to OSRM", "e")>>)
    ELSE IF ~resp.has_code
    THEN Outcome(None, <<Error("An unexpected error occurred", "e")>>)
    ELSE IF IsOk(resp)
    THEN IF resp.routes[1].valid
         THEN Outcome(Some(decode(resp.routes[1])), << >>)
         ELSE Outcome(None, <<Error("An unexpected error occurred", "e")>>)
    ELSE Outcome(None, <<Error("OSRM Error",
                               IF resp.has_message THEN resp.message
                               ELSE "No route found or unexpected response.")>>)

\* The key st.cache_data files a call under: the hash of the argument, the
\* whole frame.
CacheKey(stops) == stops

VARIABLES
    files,          \* route name -> the frame its CSV file holds
    edits,          \* number of file rewrites so far
    cache,          \* st.cache_data store: key -> Outcome
    requests,       \* frame -> number of GET requests sent for its stops
    session_state,  \* st.session_state: route name -> position index
    pc,             \* where the script run is
    clicked,        \* the run was started by a click on the refresh button
    button,         \* the page shows the refresh button
    todo,           \* route files build_map's loop has still to visit
    routes,         \* build_map's routes dict: route name -> decoded route
    plot,           \* the folium map being built: route name -> markers
    errors,         \* st.error elements of this run, in order
    answers,        \* route name -> the response its request got in this run
    failed_before,  \* routes the previous run skipped
    pending,        \* routes the refresh loop has still to advance
    prev,           \* session_state as it was when the refresh loop began
    progress,       \* sidebar progress bars: route name -> <<index, len - 1>>
    shown,          \* the map the run displayed
    since,          \* route name -> refreshes since its index last was 0
                    \* (zero) and since it last wrapped round (wrap)
    crash           \* the exception that ended the run, "" if none

vars == <<files, edits, cache, requests, session_state, pc, clicked, button,
          todo, routes, plot, errors, answers, failed_before, pending, prev,
          progress, shown, since, crash>>

Empty == << >>

Init ==
    /\ files = [r \in Routes |-> IF r = "r1" THEN FrameA ELSE FrameC]
    /\ edits = 0
    /\ cache = Empty
    /\ requests = [f \in Frames |-> 0]
    /\ session_state = Empty
    /\ pc = "start"
    /\ clicked = FALSE
    /\ button = FALSE
    /\ todo = << >>
    /\ routes = Empty
    /\ plot = Empty
    /\ errors = << >>
    /\ answers = Empty
    /\ failed_before = {}
    /\ pending = << >>
    /\ prev = Empty
    /\ progress = Empty
    /\ shown = Empty
    /\ since = [r \in Routes |-> [zero |-> 0, wrap |-> 0]]
    /\ crash = ""

Idle == pc \in {"start", "done", "crashed"}

\* A route's CSV file is rewritten between two script runs.
EditFile ==
    /\ Idle
    /\ edits < MaxEdits
    /\ \E r \in Routes, f \in Frames :
         /\ f # files[r]
         /\ files' = [files EXCEPT ![r] = f]
    /\ edits' = edits + 1
    /\ UNCHANGED <<cache, requests, session_state, pc, clicked, button, todo,
                   routes, plot, errors, answers, failed_before, pending, prev,
                   progress, shown, since, crash>>

\* The route files the loop of build_map has been through.
Visited == {name \in Routes : \A i \in 1..Len(todo) : todo[i] # name}

\* The routes the run skipped: get_osrm_route returned None.
Failed == IF pc = "start" THEN {} ELSE Visited \ DOMAIN routes

\* The local state of a script run that starts.
StartRun(click) ==
    /\ pc' = "build_map"
    /\ clicked' = click
    /\ button' = FALSE
    /\ todo' = RouteNames
    /\ routes' = Empty
    /\ plot' = Empty
    /\ errors' = << >>
    /\ answers' = Empty
    /\ failed_before' = Failed
    /\ progress' = Empty
    /\ shown' = Empty
    /\ crash' = ""

\* The page is loaded or reloaded, or the refresh button is clicked.
ScriptRun ==
    /\ Idle
    /\ \E click \in BOOLEAN :
         /\ click => button
         /\ StartRun(click)
    /\ prev' = Empty
    /\ UNCHANGED <<files, edits, cache, requests, session_state, pending, since>>

\* st.session_state[name] = 0 without the test of the key.
SetZero(state, name) ==
    IF name \in DOMAIN state THEN [state EXCEPT ![name] = 0] ELSE state @@ (name :> 0)

\* st.session_state[name] = 0 unless the key exists.
SetDefault(state, name) ==
    IF name \in DOMAIN state THEN state ELSE state @@ (name :> 0)

\* add_route_to_map indexes route_points[0], route_stops[0] and
\* route_points[st.session_state[route_name]].
add_route_to_map_raises(state, name, route_points, route_stops) ==
    \/ Len(route_points) = 0
    \/ Len(route_stops) = 0
    \/ state[name] >= Len(route_points)

add_route_to_map(state, name, route_points, route_stops) ==
    [start |-> route_points[1],
     stops |-> [i \in 1..(Len(route_stops) - 2) |-> route_stops[i + 1]],
     bus |-> route_points[state[name] + 1],
     index |-> state[name],
     line |-> route_points]

\* A skipped route with no st.error of build_map.
SkippedSilently(name, out) == out.errors

\* The st.error elements of a route that is skipped: those of get_osrm_route,
\* then the one of build_map, which names the route file.
Skipped(name, out) == out.errors \o <<Error("Failed to fetch route", name)>>

\* Lines 93 to 99 of build_map, for the value get_osrm_route returned.
BuildMapBody(name, out) ==
    LET osm_route == out.value
        state == SetDefault(session_state, name)
    IN  IF osm_route.is_none
        THEN /\ errors' = errors \o Skipped(name, out)
             /\ todo' = Tail(todo)
             /\ UNCHANGED <<routes, session_state, plot, pc, crash>>
        ELSE /\ errors' = errors \o out.errors
             /\ routes' = routes @@ (name :> osm_route.route)
             /\ session_state' = state
             /\ IF add_route_to_map_raises(state, name, osm_route.route, files[name])
                THEN /\ pc' = "crashed"
                     /\ crash' = "IndexError"
                     /\ UNCHANGED <<plot, todo>>
                ELSE /\ plot' = plot @@ (name :> add_route_to_map(state, name, osm_route.route, files[name]))
                     /\ todo' = Tail(todo)
                     /\ UNCHANGED <<pc, crash>>

\* get_osrm_route without the st.cache_data decorator.
CacheNever(store, stops) == FALSE

\* st.cache_data holds a value for the call.
CacheHit(store, stops) == CacheKey(stops) \in DOMAIN store

\* One iteration of build_map's loop over the route files: the call of
\* get_osrm_route is answered from the cache, which also replays the
\* st.error elements of the cached execution, or the body is executed, the
\* service answering as service allows, and what it returns is cached.
BuildMapLoop(service) ==
    /\ pc = "build_map"
    /\ todo # << >>
    /\ LET name == Head(todo)
           route_frame == files[name]
       IN  \/ /\ CacheHit(cache, route_frame)
              /\ BuildMapBody(name, cache[CacheKey(route_frame)])
              /\ UNCHANGED <<cache, requests, answers>>
           \/ /\ ~CacheHit(cache, route_frame)
              /\ \E resp \in service[route_frame] :
                   LET out == get_osrm_route(route_frame, resp)
                   IN  /\ requests' = [requests EXCEPT ![route_frame] = @ + 1]
                       /\ answers' = answers @@ (name :> resp)
                       /\ cache' = cache @@ (CacheKey(route_frame) :> out)
                       /\ BuildMapBody(name, out)
    /\ UNCHANGED <<files, edits, clicked, button, failed_before, pending, prev,
                   progress, shown, since>>

\* The keys of the routes dict in insertion order.
RECURSIVE Keys(_, _)
Keys(names, dict) ==
    IF names = << >> THEN << >>
    ELSE IF Head(names) \in DOMAIN dict
         THEN <<Head(names)>> \o Keys(Tail(names), dict)
         ELSE Keys(Tail(names), dict)

\* build_sidebar up to the button: the button is drawn, and a run started
\* by a click enters the refresh loop.
BuildSidebar ==
    /\ pc = "build_map"
    /\ todo = << >>
    /\ button' = TRUE
    /\ IF clicked
       THEN /\ pc' = "refresh"
            /\ pending' = Keys(RouteNames, routes)
            /\ prev' = session_state
       ELSE /\ pc' = "sidebar"
            /\ UNCHANGED <<pending, prev>>
    /\ UNCHANGED <<files, edits, cache, requests, session_state, clicked, todo,
                   routes, plot, errors, answers, failed_before, progress, shown,
                   since, crash>>

\* The refresh without the modulo.
AdvanceNoWrap(index, route, trip_length) ==
    index + (Len(route) \div trip_length)

\* The refresh that parks the bus on the last point of the path.
AdvanceParked(index, route, trip_length) ==
    LET next == index + (Len(route) \div trip_length)
    IN  IF next >= Len(route) THEN Len(route) - 1 ELSE next

\* The step computed from the number of segments of the route.
StepOfSegments(route, trip_length) == (Len(route) - 1) \div trip_length

\* step = len(route)//trip_length
Step(route, trip_length) == Len(route) \div trip_length

\* (st.session_state[route_name] + step) % len(route)
Advance(index, route, trip_length) ==
    (index + Step(route, trip_length)) % Len(route)

\* A count of refreshes, kept up to LongLen + 1.
Count(n) == IF n > LongLen THEN n ELSE n + 1

\* The refreshes since the index last was 0 and since it last wrapped round
\* the end of the path, after a refresh that took it from old to index.
Since(count, old, index) ==
    [zero |-> IF index = 0 THEN 0 ELSE Count(count.zero),
     wrap |-> IF index < old THEN 0 ELSE Count(count.wrap)]

\* One iteration of the refresh loop; counting says whether since is kept.
RefreshLoop(counting) ==
    /\ pc = "refresh"
    /\ pending # << >>
    /\ LET name == Head(pending)
       IN  \E trip_length \in TripLengths :
             LET index == Advance(session_state[name], routes[name], trip_length)
             IN  /\ session_state' = [session_state EXCEPT ![name] = index]
                 /\ since' = IF counting
                             THEN [since EXCEPT ![name] = Since(@, session_state[name], index)]
                             ELSE since
    /\ pending' = Tail(pending)
    /\ UNCHANGED <<files, edits, cache, requests, pc, clicked, button, todo,
                   routes, plot, errors, answers, failed_before, prev, progress,
                   shown, crash>>

\* st.rerun() inside the body of the refresh loop.
RerunInLoop(rest) == TRUE

\* The refresh loop is over.
LoopDone(rest) == rest = << >>

\* The refresh loop without st.rerun() after it: the run goes on to the
\* progress bars with the map it has built.
FallThrough ==
    /\ pc' = "sidebar"
    /\ UNCHANGED <<clicked, button, todo, routes, plot, errors, answers,
                   failed_before, progress, shown, crash>>

\* st.rerun(): the run is abandoned, with what it has built, and the script
\* starts again as for a run without a click.
st_rerun == StartRun(FALSE)

\* The end of the refresh loop.
Rerun ==
    /\ pc = "refresh"
    /\ LoopDone(pending)
    /\ st_rerun
    /\ UNCHANGED <<files, edits, cache, requests, session_state, pending, prev, since>>

\* The progress bars of the sidebar, then the map is displayed.
ShowPage ==
    /\ pc = "sidebar"
    /\ IF \E name \in DOMAIN routes : Len(routes[name]) - 1 = 0
       THEN /\ pc' = "crashed"
            /\ crash' = "ZeroDivisionError"
            /\ UNCHANGED <<progress, shown>>
       ELSE /\ progress' = [name \in DOMAIN routes |->
                               <<session_state[name], Len(routes[name]) - 1>>]
            /\ shown' = plot
            /\ pc' = "done"
            /\ UNCHANGED crash
    /\ UNCHANGED <<files, edits, cache, requests, session_state, clicked, button,
                   todo, routes, plot, errors, answers, failed_before, pending,
                   prev, since>>

BuildMapStep == BuildMapLoop(AnyService)

AdvanceStep == RefreshLoop(FALSE)

Next ==
    \/ EditFile
    \/ ScriptRun
    \/ BuildMapStep
    \/ BuildSidebar
    \/ AdvanceStep
    \/ Rerun
    \/ ShowPage

Spec == Init /\ [][Next]_vars

(***************************************************************************)
(* The session of a long route: the files stay as they are, the service    *)
(* finds a route of LongLen points for r1 and none for r2, and the         *)
(* refreshes since the bus last stood at index 0 are counted.              *)
(***************************************************************************)
BuildMapStepLong == BuildMapLoop(LongService)

AdvanceStepLong == RefreshLoop(TRUE)

NextLong ==
    \/ ScriptRun
    \/ BuildMapStepLong
    \/ BuildSidebar
    \/ AdvanceStepLong
    \/ Rerun
    \/ ShowPage

SpecLong == Init /\ [][NextLong]_vars

(***************************************************************************)
(* The session of two resolved routes: the files stay as they are and the  *)
(* service finds, for each of them, a route of MaxLen or of LongLen        *)
(* points.                                                                 *)
(***************************************************************************)
BuildMapStepPair == BuildMapLoop(PairService)

NextPair ==
    \/ ScriptRun
    \/ BuildMapStepPair
    \/ BuildSidebar
    \/ AdvanceStep
    \/ Rerun
    \/ ShowPage

SpecPair == Init /\ [][NextPair]_vars

(***************************************************************************)
(* The properties of the dashboard.                                        *)
(***************************************************************************)

\* The routes the refresh loop has advanced so far.
Advanced == {name \in DOMAIN routes : \A i \in 1..Len(pending) : pending[i] # name}

\* The run is past the button of a click: the refresh loop is at work or over.
Refreshing == pc = "refresh"

\* C1: once a run has handed its routes to the map and for as long as it
\* refreshes them, whatever the trip lengths drawn, every route's position
\* index is an index of its path: 0 <= index < len(path).
C1_IndexInRange ==
    pc \in {"refresh", "sidebar", "done"} =>
        \A name \in DOMAIN routes :
            /\ session_state[name] >= 0
            /\ session_state[name] < Len(routes[name])

\* A refresh has taken a bus from the last point of its path back to the
\* first one.
C1_Witness ==
    /\ Refreshing
    /\ \E name \in Advanced :
         /\ Len(routes[name]) = MaxLen
         /\ prev[name] = MaxLen - 1
         /\ session_state[name] = 0

\* C2: a refresh moves the index of every route whose path has at least two
\* points, also when the trip length drawn exceeds the length of the path.
C2_AlwaysMoves ==
    Refreshing =>
        \A name \in Advanced :
            Len(routes[name]) >= 2 => session_state[name] # prev[name]

\* The frames of identical coordinates whose stops the service was asked
\* about and found a route of at least one point for.
Resolved(coordinates) ==
    {f \in DOMAIN cache : /\ Coordinates(f) = coordinates
                          /\ requests[f] > 0
                          /\ ~cache[f].value.is_none
                          /\ cache[f].value.route # << >>}

C4_FailedRouteRetried ==
    \A name \in failed_before \cap Visited : name \in DOMAIN answers

\* The answer is one of the service reporting a failure in its body.
ServiceFailure(resp) ==
    /\ ~resp.raises
    /\ resp.has_code
    /\ (resp.code # "Ok" \/ resp.routes = << >>)

\* The st.error elements of the run.
Shown(errs) == {errs[i] : i \in 1..Len(errs)}

\* C5: a route for which the service answers with a code other than "Ok",
\* or with no routes, is left out of the routes of the run, and the error
\* displayed carries the message of the service.
C5_ServiceErrorReported ==
    \A name \in DOMAIN answers :
        ServiceFailure(answers[name]) =>
            /\ name \notin DOMAIN routes
            /\ Error("OSRM Error",
                     IF answers[name].has_message THEN answers[name].message
                     ELSE "No route found or unexpected response.") \in Shown(errors)

\* C6: no request is sent to the routing service for a frame of fewer than
\* two stops.
C6_NoRequestForShortStopSet ==
    \A f \in Frames : Len(f) < 2 => requests[f] = 0

\* C7: whatever the service answers for each route, the run is not ended
\* by an exception, and it displays the routes that resolved.
C7_RunCompletes ==
    /\ pc # "crashed"
    /\ pc = "done" => DOMAIN shown = DOMAIN routes

\* C8: the refresh loop is never left half way: outside it no route waits
\* for the advance of a refresh that has advanced another, so that every
\* marker placed, every progress bar and every map displayed comes after
\* the advance of all the routes, and a displayed map shows every bus at
\* its current index.
C8_RefreshAtomic ==
    /\ ~Refreshing => pending = << >>
    /\ pc = "done" =>
         \A name \in DOMAIN shown : shown[name].index = session_state[name]

\* A map is displayed after a refresh that has moved both buses.
C8_Witness ==
    /\ pc = "done"
    /\ DOMAIN prev = Routes
    /\ DOMAIN shown = Routes
    /\ \A name \in Routes : session_state[name] # prev[name]

\* C9, as claimed: from any index, the bus is back at index 0 within
\* len(path) refreshes.
C9_BackAtOriginWithinL ==
    \A name \in DOMAIN routes : since[name].zero <= Len(routes[name])

\* C9, amended: on a long path, where every step is at least 1, the bus
\* passes the end of the path and is back among the first floor(L/5) points
\* within len(path) refreshes; every refresh moves it forward, modulo the
\* length, by at most floor(L/5) points.
C9_CyclicAdvance ==
    \A name \in DOMAIN routes :
        LET L == Len(routes[name])
        IN  /\ since[name].wrap <= L
            /\ Refreshing /\ name \in Advanced =>
                 /\ (session_state[name] - prev[name]) % L <= L \div TripMin
                 /\ session_state[name] < prev[name] =>
                      session_state[name] < L \div TripMin

\* A refresh has taken the bus round the end of its path and past index 0.
C9_Witness ==
    /\ Refreshing
    /\ \E name \in Advanced :
         /\ session_state[name] < prev[name]
         /\ session_state[name] > 0

\* C10: the index of a route handed to the map is an index of the path it
\* is handed with, also when the path is that of a rewritten file.
C10_RenderedIndexValid ==
    \A name \in DOMAIN routes :
        Len(routes[name]) > 0 => session_state[name] < Len(routes[name])

\* The number of st.error elements of the run equal to e.
Times(e) == Cardinality({i \in 1..Len(errors) : errors[i] = e})

\* C11, as claimed: a run displays one diagnostic for every route it
\* skipped, and never two for one route.
C11_OneDiagnosticPerFailure ==
    Len(errors) <= Cardinality(Failed)

\* C11, amended: a run displays, for every route it skipped, exactly one
\* diagnostic that names the route, and in all two diagnostics: the one of
\* get_osrm_route, which states the cause and names no route, comes first,
\* also when the failure is answered from the cache.
C11_OneNamedDiagnostic ==
    /\ \A name \in Routes :
         Times(Error("Failed to fetch route", name)) = IF name \in Failed THEN 1 ELSE 0
    /\ Len(errors) = 2 * Cardinality(Failed)

\* A run has skipped a route whose failure was answered from the cache.
C11_Witness ==
    /\ pc = "sidebar"
    /\ "r1" \in Failed
    /\ "r1" \notin DOMAIN answers

\* C12: every path a run takes as resolved, stores for the route, hands to
\* the map and advances has at least one point.
C12_ResolvedPathNonEmpty ==
    /\ \A name \in DOMAIN routes : routes[name] # << >>
    /\ \A f \in DOMAIN cache :
         ~cache[f].value.is_none => cache[f].value.route # << >>

\* What a step does to the position indexes: no key is removed, a new key
\* is that of a route the run has resolved and holds 0, and the index of an
\* existing key changes only in the iteration of the refresh loop for it.
IndexFrame ==
    /\ DOMAIN session_state \subseteq DOMAIN session_state'
    /\ \A name \in DOMAIN session_state' \ DOMAIN session_state :
         /\ session_state'[name] = 0
         /\ name \in DOMAIN routes'
    /\ \A name \in DOMAIN session_state :
         session_state'[name] # session_state[name] =>
             /\ Refreshing
             /\ pending # << >>
             /\ name = Head(pending)

\* C13: a position index is created with value 0 when its route is first
\* resolved, and afterwards only the refresh loop writes it: a run that
\* resolves the route again (from the cache or not), or skips it, leaves
\* the index as it is.
C13_IndexOwnedByRefresh == [][IndexFrame]_vars

\* A run started without a click has resolved from the cache, and
\* displayed, a route whose bus a refresh had moved.
C13_Witness ==
    /\ pc = "done"
    /\ ~clicked
    /\ prev = Empty
    /\ \E name \in DOMAIN shown :
         /\ session_state[name] > 0
         /\ name \notin DOMAIN answers

\* The points a refresh has moved the bus of a route forward, modulo the
\* length of its path.
Moved(name) == (session_state[name] - prev[name]) % Len(routes[name])

\* C14: the refresh takes the index of every route from old to
\* (old + len(path) // trip_length) % len(path) for a trip length of 5..15
\* drawn for that route; on a path of 15 points or more that is a move
\* forward of floor(L/15) to floor(L/5) points modulo L.
C14_AdvanceByStep ==
    Refreshing =>
        \A name \in Advanced :
            LET L == Len(routes[name])
            IN  /\ \E trip_length \in TripLengths :
                     session_state[name] = (prev[name] + (L \div trip_length)) % L
                /\ L >= TripMax =>
                     /\ Moved(name) >= L \div TripMax
                     /\ Moved(name) <= L \div TripMin

\* One refresh has moved the buses of two long routes by different steps,
\* the largest and the smallest a draw can give.
C14_Witness ==
    /\ Refreshing
    /\ Advanced = Routes
    /\ \A name \in Routes : Len(routes[name]) = LongLen
    /\ Moved("r1") = LongLen \div TripMin
    /\ Moved("r2") = LongLen \div TripMax
    /\ Moved("r1") # Moved("r2")

\* C15: the run of a click displays no map: it is restarted after the
\* advance, and every map displayed has the bus marker of every route on
\* the point of the path at the current position index.
C15_RefreshRecomputes ==
    /\ Refreshing => shown = Empty
    /\ pc = "done" =>
         /\ ~clicked
         /\ \A name \in DOMAIN shown :
              /\ shown[name].line = routes[name]
              /\ shown[name].bus = routes[name][session_state[name] + 1]

\* The map displayed after a refresh has the bus of a route on a point
\* other than the one it stood on before the refresh.
C15_Witness ==
    /\ pc = "done"
    /\ \E name \in DOMAIN shown \cap DOMAIN prev :
         /\ session_state[name] # prev[name]
         /\ shown[name].bus = routes[name][session_state[name] + 1]
         /\ shown[name].bus # routes[name][prev[name] + 1]

\* C16: the value of every progress bar, index / (len(path) - 1), is
\* defined and lies in [0, 1]: no run is ended by a division by zero.
C16_ProgressDefined ==
    /\ crash # "ZeroDivisionError"
    /\ \A name \in DOMAIN progress :
         /\ progress[name][2] > 0
         /\ progress[name][1] >= 0
         /\ progress[name][1] <= progress[name][2]

====
